---- MODULE Spec2Model ----
(***************************************************************************)
(* Model of lunch-money-priced-assets (src/main.py): the PricedAsset codec *)
(* (PATTERN, from_string, load_price, value, __str__) and the update       *)
(* pipeline (update_asset_balance, main).                                  *)
(*                                                                         *)
(* A Python str is a sequence of one-character strings.  A Decimal is the  *)
(* record [coef, exp] (sign is always 0 here), its value coef * 10^exp.    *)
(* An optional value is None or Some(v).                                   *)
(***************************************************************************)
EXTENDS Integers, Sequences, FiniteSets, TLC

None == [some |-> FALSE]

Some(v) == [some |-> TRUE, val |-> v]

NoMatch == [matched |-> FALSE]

(***************************************************************************)
(* Characters and the character classes PATTERN uses.                      *)
(***************************************************************************)
DigitChars == <<"0", "1", "2", "3", "4", "5", "6", "7", "8", "9">>

UpperChars == <<"A", "B", "C", "D", "E", "F", "G", "H", "I", "J", "K", "L", "M",
                "N", "O", "P", "Q", "R", "S", "T", "U", "V", "W", "X", "Y", "Z">>

LowerChars == <<"a", "b", "c", "d", "e", "f", "g", "h", "i", "j", "k", "l", "m",
                "n", "o", "p", "q", "r", "s", "t", "u", "v", "w", "x", "y", "z">>

Range(f) == {f[i] : i \in DOMAIN f}

Min(S) == CHOOSE m \in S : \A y \in S : m <= y

DigitSet == Range(DigitChars)

UpperSet == Range(UpperChars)

\* \d
IsDigit(c) == c \in DigitSet

\* [\d.]
IsNumChar(c) == IsDigit(c) \/ c = "."

\* [A-Z]
IsUpper(c) == c \in UpperSet

\* \s
IsSpace(c) == c \in {" ", "\t", "\n"}

\* . (no DOTALL flag: every character but the newline)
IsDot(c) == c # "\n"

(***************************************************************************)
(* PATTERN, matched as re.match does: a backtracking search that tries the *)
(* lazy groups shortest first and the optional clause before skipping it.  *)
(* Positions are 1-based; position Len(s) + 1 is the end of the string.    *)
(* Each greedy run (\s*, the price) is followed by a character outside its *)
(* class, so giving back part of it never lets the rest match: the run is  *)
(* taken whole.                                                            *)
(***************************************************************************)

\* \s* (greedy) from position p: the position after the run of whitespace
RECURSIVE SkipSpace(_, _)
SkipSpace(s, p) ==
    IF p <= Len(s) /\ IsSpace(s[p]) THEN SkipSpace(s, p + 1) ELSE p

\* [\d.]+ (greedy) from position p: the position after the run
RECURSIVE SkipNum(_, _)
SkipNum(s, p) ==
    IF p <= Len(s) /\ IsNumChar(s[p]) THEN SkipNum(s, p + 1) ELSE p

\* $ without MULTILINE: the end of the string, or just before a final newline
AtEnd(s, p) ==
    \/ p = Len(s) + 1
    \/ p = Len(s) /\ s[p] = "\n"

\* the captures of the optional clause when it matched at (at, cur, pr, fin)
ClauseGroups(s, cur, pr, fin) ==
    [matched  |-> TRUE,
     currency |-> Some(SubSeq(s, cur, cur + 2)),
     price    |-> Some(SubSeq(s, pr, fin - 1))]

\* @\s*(?P<currency>[A-Z]{3})\s*(?P<price>[\d.]+)$ with the "@" expected at
\* position at, the currency at cur, the price from pr to fin (exclusive)
ClauseAt(s, at, cur, pr, fin) ==
    IF /\ at <= Len(s) /\ s[at] = "@"
       /\ cur + 2 <= Len(s)
       /\ \A i \in cur..(cur + 2) : IsUpper(s[i])
       /\ fin > pr
       /\ AtEnd(s, fin)
    THEN ClauseGroups(s, cur, pr, fin)
    ELSE NoMatch

ClauseFromPrice(s, at, cur, pr) == ClauseAt(s, at, cur, pr, SkipNum(s, pr))

ClauseFromCurrency(s, at, cur) == ClauseFromPrice(s, at, cur, SkipSpace(s, cur + 3))

ClauseFromAt(s, at) == ClauseFromCurrency(s, at, SkipSpace(s, at + 1))

\* (?:\s*@\s*(?P<currency>[A-Z]{3})\s*(?P<price>[\d.]+)) from position p,
\* followed by $: the captures, or NoMatch
Clause(s, p) == ClauseFromAt(s, SkipSpace(s, p))

\* ( clause )? $ after a quantity that ends before position e: the clause
\* is tried first; without it currency and price take no part in the match
AfterClause(s, e, clause) ==
    IF clause.matched THEN clause
    ELSE IF AtEnd(s, e) THEN [matched |-> TRUE, currency |-> None, price |-> None]
    ELSE NoMatch

AfterQuantity(s, e) == AfterClause(s, e, Clause(s, e))

WithQuantity(quantity, tail) ==
    [matched  |-> TRUE,
     quantity |-> quantity,
     currency |-> tail.currency,
     price    |-> tail.price]

\* (?P<quantity>[\d.]+?), lazy: the quantity read so far is s[q..e-1] and tail
\* is the rest of the pattern tried at e; when the rest fails the quantity
\* takes one more character of [\d.]
RECURSIVE QuantityTry(_, _, _, _)
QuantityTry(s, q, e, tail) ==
    IF tail.matched THEN WithQuantity(SubSeq(s, q, e - 1), tail)
    ELSE IF e <= Len(s) /\ IsNumChar(s[e])
         THEN QuantityTry(s, q, e + 1, AfterQuantity(s, e + 1))
         ELSE NoMatch

\* (?P<quantity>[\d.]+?) from position q and the rest of the pattern
Quantity(s, q) ==
    IF q <= Len(s) /\ IsNumChar(s[q])
    THEN QuantityTry(s, q, q + 1, AfterQuantity(s, q + 1))
    ELSE NoMatch

WithSymbol(symbol, rest) ==
    [matched  |-> TRUE,
     symbol   |-> symbol,
     quantity |-> rest.quantity,
     currency |-> rest.currency,
     price    |-> rest.price]

\* \]:\s* at position k and the rest of the pattern
Colon(s, k) ==
    IF k + 1 <= Len(s) /\ s[k] = "]" /\ s[k + 1] = ":"
    THEN Quantity(s, SkipSpace(s, k + 2))
    ELSE NoMatch

\* (?P<symbol>.*?), lazy: the symbol read so far is s[b..k-1] and rest is
\* the rest of the pattern tried at k; when the rest fails the symbol takes
\* one more character
RECURSIVE SymbolTry(_, _, _, _)
SymbolTry(s, b, k, rest) ==
    IF rest.matched THEN WithSymbol(SubSeq(s, b, k - 1), rest)
    ELSE IF k <= Len(s) /\ IsDot(s[k])
         THEN SymbolTry(s, b, k + 1, Colon(s, k + 1))
         ELSE NoMatch

\* (?P<symbol>.*?)\]:\s* from position b (just after "[") and the rest of the
\* pattern
Symbol(s, b) == SymbolTry(s, b, b, Colon(s, b))

WithLabel(label, rest) ==
    [matched  |-> TRUE,
     label    |-> label,
     symbol   |-> rest.symbol,
     quantity |-> rest.quantity,
     currency |-> rest.currency,
     price    |-> rest.price]

\* \[ at position br and the rest of the pattern
Bracket(s, br) ==
    IF br <= Len(s) /\ s[br] = "[" THEN Symbol(s, br + 1) ELSE NoMatch

\* ^(?P<label>.*?), lazy: the label read so far is s[1..n] and rest is the
\* rest of the pattern, \s*\[..., tried after it; when the rest fails the
\* label takes one more character
RECURSIVE LabelTry(_, _, _)
LabelTry(s, n, rest) ==
    IF rest.matched THEN WithLabel(SubSeq(s, 1, n), rest)
    ELSE IF n < Len(s) /\ IsDot(s[n + 1])
         THEN LabelTry(s, n + 1, Bracket(s, SkipSpace(s, n + 2)))
         ELSE NoMatch

\* PATTERN.match(s): the named groups of the match (a group that took no
\* part in it is None), or NoMatch
PATTERN(s) == LabelTry(s, 0, Bracket(s, SkipSpace(s, 1)))

(***************************************************************************)
(* decimal.Decimal, for the non-negative numbers that occur: [coef, exp].  *)
(***************************************************************************)
DigitVal(c) == (CHOOSE i \in DOMAIN DigitChars : DigitChars[i] = c) - 1

RECURSIVE DigitsToInt(_)
DigitsToInt(ds) ==
    IF ds = <<>> THEN 0
    ELSE DigitsToInt(SubSeq(ds, 1, Len(ds) - 1)) * 10 + DigitVal(ds[Len(ds)])

\* str(n) for an int n >= 0
RECURSIVE IntToDigits(_)
IntToDigits(n) ==
    IF n < 10 THEN <<DigitChars[n + 1]>>
    ELSE IntToDigits(n \div 10) \o <<DigitChars[(n % 10) + 1]>>

RECURSIVE Pow10(_)
Pow10(n) == IF n = 0 THEN 1 ELSE 10 * Pow10(n - 1)

RECURSIVE Rep(_, _)
Rep(c, n) == IF n <= 0 THEN <<>> ELSE <<c>> \o Rep(c, n - 1)

\* the numerals Decimal(str) accepts among the strings of [\d.]+ : some
\* digit, at most one point; any other raises decimal.InvalidOperation
WellFormedNumeral(t) ==
    /\ Cardinality({i \in DOMAIN t : t[i] = "."}) <= 1
    /\ \E i \in DOMAIN t : IsDigit(t[i])

DecimalOfDigits(t, dots) ==
    [coef |-> DigitsToInt(SelectSeq(t, IsDigit)),
     exp  |-> IF dots = {} THEN 0 ELSE Min(dots) - Len(t)]

\* Decimal(t) for a well-formed numeral t: the digits as written are the
\* coefficient, the number of digits after the point the negated exponent
DecimalOfStr(t) == DecimalOfDigits(t, {i \in DOMAIN t : t[i] = "."})

\* Decimal(n) for an int n >= 0
DecimalOfInt(n) == [coef |-> n, exp |-> 0]

\* Decimal.__mul__ (exact: the coefficients multiply, the exponents add)
DecimalMul(a, b) == [coef |-> a.coef * b.coef, exp |-> a.exp + b.exp]

\* Decimal.__bool__
DecimalIsZero(d) == d.coef = 0

\* Decimal.normalize: the same value with no trailing zero in the
\* coefficient (zero is 0E0)
RECURSIVE DecimalNormalize(_)
DecimalNormalize(d) ==
    IF d.coef = 0 THEN [coef |-> 0, exp |-> 0]
    ELSE IF d.coef % 10 = 0
         THEN DecimalNormalize([coef |-> d.coef \div 10, exp |-> d.exp + 1])
         ELSE d

\* Decimal.__eq__ : equality of the values, which are equal exactly when
\* their normal forms are the same
DecimalEq(a, b) == DecimalNormalize(a) = DecimalNormalize(b)

\* "%+d" % e
SignedDigits(e) ==
    IF e < 0 THEN <<"-">> \o IntToDigits(-e) ELSE <<"+">> \o IntToDigits(e)

\* the digits with the point placed after dotplace of them, and the exponent
\* that is left
Notation(digits, leftdigits, dotplace) ==
    (IF dotplace <= 0 THEN <<"0", ".">> \o Rep("0", -dotplace) \o digits
     ELSE IF dotplace >= Len(digits)
          THEN digits \o Rep("0", dotplace - Len(digits))
          ELSE SubSeq(digits, 1, dotplace) \o <<".">>
               \o SubSeq(digits, dotplace + 1, Len(digits)))
    \o (IF leftdigits = dotplace THEN <<>>
        ELSE <<"E">> \o SignedDigits(leftdigits - dotplace))

DecimalNotation(digits, exp, leftdigits) ==
    Notation(digits, leftdigits, IF exp <= 0 /\ leftdigits > -6 THEN leftdigits ELSE 1)

DecimalDigits(digits, exp) == DecimalNotation(digits, exp, exp + Len(digits))

\* str(d) and format(d, ""): plain notation while the exponent is <= 0 and
\* more than -6 digits stand left of the point, scientific notation otherwise
DecimalStr(d) == DecimalDigits(IntToDigits(d.coef), d.exp)

RoundHalfEven(q, r, unit) ==
    IF 2 * r > unit \/ (2 * r = unit /\ q % 2 = 1) THEN q + 1 ELSE q

\* coef / unit, ROUND_HALF_EVEN
Quantize(coef, unit) == RoundHalfEven(coef \div unit, coef % unit, unit)

\* d rescaled to exponent -2, ROUND_HALF_EVEN: the number of hundredths
Hundredths(d) ==
    IF d.exp >= -2 THEN d.coef * Pow10(d.exp + 2)
    ELSE Quantize(d.coef, Pow10(-2 - d.exp))

FixedPoint2(h) ==
    IntToDigits(h \div 100) \o <<".">>
    \o <<DigitChars[((h % 100) \div 10) + 1], DigitChars[(h % 10) + 1]>>

\* format(d, ".2f")
DecimalFormat2f(d) == FixedPoint2(Hundredths(d))

\* float(d): the value without the Decimal's exponent (trailing zeros
\* dropped).  The binary rounding of a double is not modelled.
RECURSIVE float(_)
float(d) ==
    IF d.coef = 0 THEN [coef |-> 0, exp |-> 0]
    ELSE IF d.exp < 0 /\ d.coef % 10 = 0
         THEN float([coef |-> d.coef \div 10, exp |-> d.exp + 1])
         ELSE d

\* str.lower
lower(t) ==
    [i \in DOMAIN t |->
        IF IsUpper(t[i])
        THEN LowerChars[CHOOSE k \in DOMAIN UpperChars : UpperChars[k] = t[i]]
        ELSE t[i]]

\* s[:n]
SliceTo(s, n) ==
    IF n >= 0 THEN SubSeq(s, 1, IF n < Len(s) THEN n ELSE Len(s))
    ELSE SubSeq(s, 1, Len(s) + n)

(***************************************************************************)
(* class PricedAsset                                                       *)
(***************************************************************************)

\* cls(label=..., symbol=..., quantity=..., currency=..., price=...) on the
\* groups of a match; Decimal(...) raises decimal.InvalidOperation
cls(match) ==
    IF match.quantity # <<>> /\ ~WellFormedNumeral(match.quantity)
    THEN [kind |-> "InvalidOperation"]
    ELSE IF match.price.some /\ match.price.val # <<>>
            /\ ~WellFormedNumeral(match.price.val)
    THEN [kind |-> "InvalidOperation"]
    ELSE [kind  |-> "ok",
          asset |-> [label    |-> match.label,
                     symbol   |-> match.symbol,
                     quantity |-> IF match.quantity # <<>>
                                  THEN DecimalOfStr(match.quantity)
                                  ELSE DecimalOfInt(0),
                     currency |-> match.currency,
                     price    |-> IF match.price.some /\ match.price.val # <<>>
                                  THEN Some(DecimalOfStr(match.price.val))
                                  ELSE None]]

from_match(match) ==
    IF ~match.matched THEN [kind |-> "ValueError"] ELSE cls(match)

\* PricedAsset.from_string: [kind |-> "ok", asset |-> the descriptor], or the
\* exception raised: ValueError (no match) or decimal.InvalidOperation
\* (raised by Decimal(...), an ArithmeticError and not a ValueError)
from_string(asset_string) == from_match(PATTERN(asset_string))

\* value with the quantity forgotten: the price alone
value_without_quantity(self) ==
    IF self.price = None THEN None ELSE Some(self.price.val)

\* PricedAsset.value
value(self) ==
    IF self.price = None THEN None
    ELSE Some(DecimalMul(self.quantity, self.price.val))

\* PricedAsset.load_price, given what Ticker(self.symbol).info does: it
\* raises (info.fault) or returns the dict info.data, whose keys currency and
\* regularMarketPrice may be missing (None)
load_price(self, info) ==
    IF info.fault THEN [raised |-> TRUE]
    ELSE [raised |-> FALSE,
          asset  |-> [self EXCEPT
                        !.currency = info.data.currency,
                        !.price = IF info.data.regularMarketPrice.some
                                  THEN Some(info.data.regularMarketPrice.val)
                                  ELSE Some(DecimalOfInt(0))]]

max_length == 45

\* the metadata suffix __str__ builds
Metadata(self) ==
    <<" ", "[">> \o self.symbol \o <<"]", ":", " ">> \o DecimalStr(self.quantity)
    \o (IF self.price # None
        THEN <<" ", "@">>
             \o (IF self.currency # None THEN <<" ">> \o self.currency.val ELSE <<>>)
             \o <<" ">> \o DecimalFormat2f(self.price.val)
        ELSE <<>>)

\* the truncation applied to the whole string instead of the label
Truncated_whole_string(label, metadata) ==
    SliceTo(label \o metadata, max_length)

\* label = self.label[:max_length - len(metadata)]; f"{label}{metadata}"
Truncated(label, metadata) ==
    SliceTo(label, max_length - Len(metadata)) \o metadata

\* PricedAsset.__str__
__str__(self) == Truncated(self.label, Metadata(self))

(***************************************************************************)
(* def update_asset_balance(lunch, lm_asset), run to its end.  The inputs  *)
(* are what the two collaborators do: info is the outcome of the quote     *)
(* lookup (Ticker(symbol).info), update_fault whether lunch.update_asset   *)
(* raises.  The result is the exception that escapes (None: a normal       *)
(* return) and the calls made to the collaborators, in order.              *)
(***************************************************************************)
\* float(asset.value or 0)
Balance(v) ==
    float(IF v # None /\ ~DecimalIsZero(v.val) THEN v.val ELSE DecimalOfInt(0))

\* asset.currency.lower() if asset.currency else None
LowerCurrency(currency) ==
    IF currency # None /\ currency.val # <<>> THEN Some(lower(currency.val)) ELSE None

\* lines 86-94: the write-back stage; a fault of lunch.update_asset is caught
write_back(lm_asset, ticker, asset, update_fault) ==
    [raised |-> None,
     calls  |-> <<ticker,
                  [op |-> "update_asset", id |-> lm_asset.id,
                   name |-> __str__(asset),
                   currency |-> LowerCurrency(asset.currency),
                   balance |-> Balance(value(asset)),
                   fault |-> update_fault]>>]

\* lines 80-84: the price stage; a fault of the quote lookup is caught
price_stage(lm_asset, ticker, loaded, update_fault) ==
    IF loaded.raised
    THEN [raised |-> None, calls |-> <<ticker>>]
    ELSE write_back(lm_asset, ticker, loaded.asset, update_fault)

\* the parse stage followed by a price stage whose except clause lacks its
\* return: after a provider fault the write-back goes on
parse_stage_without_return(lm_asset, parsed, info, update_fault) ==
    IF parsed.kind = "ValueError"
    THEN [raised |-> None, calls |-> <<>>]
    ELSE IF parsed.kind # "ok"
    THEN [raised |-> Some(parsed.kind), calls |-> <<>>]
    ELSE write_back(lm_asset,
                    [op |-> "Ticker", id |-> lm_asset.id,
                     symbol |-> parsed.asset.symbol, info |-> info],
                    IF info.fault THEN parsed.asset
                    ELSE load_price(parsed.asset, info).asset,
                    update_fault)

\* lines 73-78: the parse stage; "except ValueError" catches the format error
\* and does not catch decimal.InvalidOperation
parse_stage(lm_asset, parsed, info, update_fault) ==
    IF parsed.kind = "ValueError"
    THEN [raised |-> None, calls |-> <<>>]
    ELSE IF parsed.kind # "ok"
    THEN [raised |-> Some(parsed.kind), calls |-> <<>>]
    ELSE price_stage(lm_asset,
                     [op |-> "Ticker", id |-> lm_asset.id,
                      symbol |-> parsed.asset.symbol, info |-> info],
                     load_price(parsed.asset, info),
                     update_fault)

update_asset_balance(lm_asset, info, update_fault) ==
    parse_stage(lm_asset, from_string(lm_asset.name), info, update_fault)

(***************************************************************************)
(* The inputs: what the Ledger Service lists, what the Quote Provider      *)
(* answers, and the strings and descriptors given to the codec.            *)
(***************************************************************************)

\* the number of assets the listing returns, at most
MaxAssets == 2

\* the zeros between the point and the last digit of the smallest quantity
MaxZeros == 6

\* the length of the long label
MaxLabelLen == 40

\* the length of the long symbol
MaxSymbolLen == 37

TinyQuantity == <<".">> \o Rep("0", MaxZeros) \o <<"1">>

\* the id the Ledger Service gives to the asset it lists at position i
AssetId(i) == 100 + i

LedgerNames ==
    { <<"A", "p", "p", "l", "e", " ", "[", "A", "A", "P", "L", "]", ":", " ", "1", "0">>,
      <<"C", "a", "s", "h">>,
      <<"A", " ", "[", "S", "]", ":", " ", "1", ".", "2", ".", "3">>,
      <<"B", " ", "[", "T", "]", ":", " ">> \o TinyQuantity,
      <<"C", " ", "[", "U", "]", ":", " ", "0", " ", "@", " ", "U", "S", "D", " ",
        "1", ".", "0", "0">> }

\* lunch.get_assets(): every list of at most MaxAssets assets
Listings ==
    UNION { { [i \in 1..n |-> [id |-> AssetId(i), name |-> names[i]]] :
                names \in [1..n -> LedgerNames] } : n \in 0..MaxAssets }

\* the currency field of ticker.info: missing, or a code
Currencies == {None, Some(<<"U", "S", "D">>), Some(<<"G", "B", "p">>)}

\* the regularMarketPrice field of ticker.info: missing, 12.5, 100.125, 0.375
MarketPrices ==
    {None, Some([coef |-> 125, exp |-> -1]), Some([coef |-> 100125, exp |-> -3]),
     Some([coef |-> 375, exp |-> -3])}

InfoFault == [fault |-> TRUE]

\* the outcomes of Ticker(symbol).info in the pipeline: a fault, a full
\* answer, and answers that lack the price, the currency, or both (with an
\* empty currency code)
Infos ==
    { InfoFault,
      [fault |-> FALSE,
       data  |-> [currency |-> Some(<<"U", "S", "D">>),
                  regularMarketPrice |-> Some([coef |-> 125, exp |-> -1])]],
      [fault |-> FALSE,
       data  |-> [currency |-> Some(<<"G", "B", "p">>),
                  regularMarketPrice |-> None]],
      [fault |-> FALSE,
       data  |-> [currency |-> None,
                  regularMarketPrice |-> Some([coef |-> 100125, exp |-> -3])]],
      [fault |-> FALSE,
       data  |-> [currency |-> Some(<<>>), regularMarketPrice |-> None]] }

\* the outcomes of Ticker(symbol).info given to the codec
CodecInfos ==
    {InfoFault}
    \cup { [fault |-> FALSE, data |-> [currency |-> c, regularMarketPrice |-> p]] :
             c \in Currencies, p \in MarketPrices }

Labels ==
    { <<>>, <<"A">>, <<"A", "b", " ", "c">>, <<"[", "a">>,
      Rep("x", MaxLabelLen - 3), Rep("x", MaxLabelLen) }

\* what stands between the label and the quantity: \s*\[symbol\]:\s* and
\* ways to get it wrong
Heads ==
    { <<" ", "[", "S", "]", ":", " ">>,
      <<"[", "S", "]", ":">>,
      <<"\n", "[", "S", "]", ":", "\n">>,
      <<" ", "S", "]", ":", " ">>,
      <<" ", "[", "S", "]", " ">>,
      <<" ", "[">> \o Rep("S", MaxSymbolLen) \o <<"]", ":", " ">>,
      <<" ", "[", "]", ":", " ">>,
      <<" ", "[", "x", " ", "[", "S", "]", ":", " ">> }

Quantities ==
    { <<"1">>, <<"1", "0">>, <<"1", ".", "5", "0">>, <<".", "5">>, <<"0", "0", "7">>,
      <<"0">>, <<".">>, <<"1", ".", "2", ".", "3">>, <<"x">>, TinyQuantity,
      <<"1", "0", "0", "0", "0", "0", "0">> }

Clauses ==
    { <<>>,
      <<" ", "@", " ", "U", "S", "D", " ", "1", "0", "0", ".", "0", "0">>,
      <<"@", "U", "S", "D", "1", ".", "0", "0", "5">>,
      <<" ", "@", " ", "u", "s", "d", " ", "1">>,
      <<" ", "@", " ", "U", "S", "D", "X", " ", "1">>,
      <<" ", "@", " ", "U", "S", "D", " ", "1", ".", "2", ".", "3">>,
      <<" ", "@", " ", "1", ".", "0", "0">> }

Trailers == { <<>>, <<"\n">>, <<" ", "x">> }

\* the strings given to from_string
AssetStrings ==
    { l \o h \o q \o c \o t :
        l \in Labels, h \in Heads, q \in Quantities, c \in Clauses, t \in Trailers }

(***************************************************************************)
(* State.  The pipeline: where main is (pc), the escaped exception         *)
(* (raised), the listed assets, the position of the for loop, the assets   *)
(* update_asset_balance was run on and, for each of them in turn, the      *)
(* collaborator calls its run made.  The                                   *)
(* codec: the string decoded, the result of from_string, the descriptor,   *)
(* whether a price was loaded into it, its str() and the result of         *)
(* decoding that again.                                                    *)
(***************************************************************************)
VARIABLES pc, raised, lm_assets, idx, visited, calls,
          c_stage, c_input, c_result, c_asset, c_loaded, c_out, c_again

pipelineVars == <<pc, raised, lm_assets, idx, visited, calls>>

codecVars == <<c_stage, c_input, c_result, c_asset, c_loaded, c_out, c_again>>

vars == <<pc, raised, lm_assets, idx, visited, calls,
          c_stage, c_input, c_result, c_asset, c_loaded, c_out, c_again>>

NoAsset == [label |-> <<>>, symbol |-> <<>>, quantity |-> DecimalOfInt(0),
            currency |-> None, price |-> None]

PipelineIdle ==
    /\ pc = "idle" /\ raised = None /\ lm_assets = <<>> /\ idx = 1
    /\ visited = <<>> /\ calls = <<>>

CodecIdle ==
    /\ c_stage = "idle" /\ c_input = <<>> /\ c_result = [kind |-> "none"]
    /\ c_asset = NoAsset /\ c_loaded = FALSE /\ c_out = <<>>
    /\ c_again = [kind |-> "none"]

(***************************************************************************)
(* def main()                                                              *)
(***************************************************************************)
Init ==
    /\ pc = "start" /\ raised = None /\ lm_assets = <<>> /\ idx = 1
    /\ visited = <<>> /\ calls = <<>>
    /\ CodecIdle

\* LUNCHMONEY_ACCESS_TOKEN is not set: main raises ValueError
main_no_token ==
    /\ pc = "start"
    /\ pc' = "raised"
    /\ raised' = Some("ValueError")
    /\ UNCHANGED <<lm_assets, idx, visited, calls>>
    /\ UNCHANGED codecVars

\* lunch.get_assets() raises: nothing catches it
main_listing_fault ==
    /\ pc = "start"
    /\ pc' = "raised"
    /\ raised' = Some("ListingError")
    /\ UNCHANGED <<lm_assets, idx, visited, calls>>
    /\ UNCHANGED codecVars

\* lunch.get_assets() returns the list
main_get_assets ==
    /\ pc = "start"
    /\ \E listing \in Listings : lm_assets' = listing
    /\ pc' = "loop"
    /\ UNCHANGED <<raised, idx, visited, calls>>
    /\ UNCHANGED codecVars

\* what the call of update_asset_balance leaves behind in main
main_after(r) ==
    /\ calls' = Append(calls, r.calls)
    /\ raised' = r.raised
    /\ pc' = IF r.raised = None THEN "loop" ELSE "raised"

\* one iteration of "for lm_asset in lm_assets": update_asset_balance runs
\* to its end; an exception that escapes it ends main
main_loop ==
    /\ pc = "loop"
    /\ idx <= Len(lm_assets)
    /\ \E info \in Infos, update_fault \in BOOLEAN :
          main_after(update_asset_balance(lm_assets[idx], info, update_fault))
    /\ visited' = Append(visited, lm_assets[idx].id)
    /\ idx' = idx + 1
    /\ UNCHANGED lm_assets
    /\ UNCHANGED codecVars

\* the list is exhausted: main returns
main_return ==
    /\ pc = "loop"
    /\ idx > Len(lm_assets)
    /\ pc' = "done"
    /\ UNCHANGED <<raised, lm_assets, idx, visited, calls>>
    /\ UNCHANGED codecVars

Next ==
    \/ main_no_token
    \/ main_listing_fault
    \/ main_get_assets
    \/ main_loop
    \/ main_return

Spec == Init /\ [][Next]_vars

(***************************************************************************)
(* The codec on its own: from_string on a string, optionally load_price,   *)
(* then str() and from_string on the result.                               *)
(***************************************************************************)
CodecInit ==
    /\ PipelineIdle
    /\ c_stage = "input"
    /\ c_input \in AssetStrings
    /\ c_result = [kind |-> "none"]
    /\ c_asset = NoAsset /\ c_loaded = FALSE /\ c_out = <<>>
    /\ c_again = [kind |-> "none"]

Decoded(r) ==
    /\ c_result' = r
    /\ c_stage' = IF r.kind = "ok" THEN "decoded" ELSE "failed"
    /\ c_asset' = IF r.kind = "ok" THEN r.asset ELSE c_asset

Decode ==
    /\ c_stage = "input"
    /\ Decoded(from_string(c_input))
    /\ UNCHANGED <<c_input, c_loaded, c_out, c_again>>
    /\ UNCHANGED pipelineVars

Loaded(r) ==
    IF r.raised
    THEN /\ c_stage' = "failed"
         /\ UNCHANGED <<c_asset, c_loaded>>
    ELSE /\ c_asset' = r.asset
         /\ c_loaded' = TRUE
         /\ UNCHANGED c_stage

LoadPrice ==
    /\ c_stage = "decoded"
    /\ ~c_loaded
    /\ \E info \in CodecInfos : Loaded(load_price(c_asset, info))
    /\ UNCHANGED <<c_input, c_result, c_out, c_again>>
    /\ UNCHANGED pipelineVars

Encode ==
    /\ c_stage = "decoded"
    /\ c_out' = __str__(c_asset)
    /\ c_stage' = "encoded"
    /\ UNCHANGED <<c_input, c_result, c_asset, c_loaded, c_again>>
    /\ UNCHANGED pipelineVars

Redecode ==
    /\ c_stage = "encoded"
    /\ c_again' = from_string(c_out)
    /\ c_stage' = "redecoded"
    /\ UNCHANGED <<c_input, c_result, c_asset, c_loaded, c_out>>
    /\ UNCHANGED pipelineVars

CodecNext == Decode \/ LoadPrice \/ Encode \/ Redecode

SpecCodec == CodecInit /\ [][CodecNext]_vars

(***************************************************************************)
(* The claims about the pipeline, checked under Spec.                      *)
(***************************************************************************)

\* the ids of the listed assets, in list order
ListedIds == [i \in DOMAIN lm_assets |-> lm_assets[i].id]

\* C1: failure isolation in the driver.  Once the listing has returned, main
\* runs update_asset_balance on each listed asset exactly once, in list
\* order, and then finishes normally: no fault of the parse, price or
\* write-back stage escapes update_asset_balance, so main never ends with an
\* exception after it has started on the assets, and when it is done it has
\* visited the whole list.
C1_FailureIsolation ==
    /\ visited = SubSeq(ListedIds, 1, Len(visited))
    /\ visited # <<>> => pc # "raised"
    /\ pc = "done" => visited = ListedIds

\* the calls cs made by the run of update_asset_balance on lm_asset, whose
\* name gives match under PATTERN and parsed under from_string, are gated
Gated(lm_asset, cs, match, parsed) ==
    /\ (\E j \in DOMAIN cs : cs[j].op = "Ticker") => parsed.kind = "ok"
    /\ (\E j \in DOMAIN cs : cs[j].op = "update_asset") =>
          /\ parsed.kind = "ok"
          /\ Len(cs) = 2
          /\ cs[1].op = "Ticker"
          /\ ~cs[1].info.fault
          /\ cs[2].op = "update_asset"
    /\ ~match.matched => cs = <<>>
    /\ (Len(cs) >= 1 /\ cs[1].op = "Ticker" /\ cs[1].info.fault)
          => \A j \in DOMAIN cs : cs[j].op # "update_asset"
    /\ Len(cs) <= 2
    /\ Len(cs) >= 1 =>
          /\ cs[1].op = "Ticker"
          /\ cs[1].symbol = parsed.asset.symbol
    /\ \A j \in DOMAIN cs : cs[j].id = lm_asset.id

\* C2: stage gating in update_asset_balance.  The provider is queried for an
\* asset only if its name decoded; the ledger update call is made only if
\* the name decoded and the quote lookup returned without fault; a name that
\* does not match the grammar gives no call at all, a provider fault gives
\* no update call; each asset gets at most one update call (and one query),
\* addressed to its own id, the query being for the decoded symbol.
C2_StageGating ==
    \A i \in DOMAIN calls :
        Gated(lm_assets[i], calls[i],
              PATTERN(lm_assets[i].name), from_string(lm_assets[i].name))

\* C2 witness: one asset whose name does not match was skipped without a
\* call, and one asset is left without an update call by a provider fault
C2_Witness ==
    /\ \E i \in DOMAIN calls :
          ~PATTERN(lm_assets[i].name).matched /\ calls[i] = <<>>
    /\ \E i \in DOMAIN calls :
          Len(calls[i]) = 1 /\ calls[i][1].info.fault

\* the price load_price stores for the answer data of the provider
LoadedPrice(data) ==
    IF data.regularMarketPrice.some THEN data.regularMarketPrice.val
    ELSE [coef |-> 0, exp |-> 0]

\* the lowercase form of the currency codes the provider answers with
LowercaseOf(code) ==
    IF code = <<"U", "S", "D">> THEN <<"u", "s", "d">>
    ELSE IF code = <<"G", "B", "p">> THEN <<"g", "b", "p">>
    ELSE code

\* the update call made for descriptor d (decoded from the name) and the
\* provider's answer data carries the contents C3 states
WriteBackContents(call, d, data) ==
    /\ call.name = __str__([d EXCEPT !.price = Some(LoadedPrice(data)),
                                     !.currency = data.currency])
    /\ call.currency = IF data.currency.some /\ data.currency.val # <<>>
                       THEN Some(LowercaseOf(data.currency.val))
                       ELSE None
    /\ DecimalEq(call.balance,
                 [coef |-> d.quantity.coef * LoadedPrice(data).coef,
                  exp  |-> d.quantity.exp + LoadedPrice(data).exp])
    /\ (d.quantity.coef = 0 \/ LoadedPrice(data).coef = 0)
          => call.balance = [coef |-> 0, exp |-> 0]

StillTracked(written, old) ==
    /\ written.kind = "ok"
    /\ written.asset.symbol = old.asset.symbol
    /\ DecimalEq(written.asset.quantity, old.asset.quantity)

\* C10: tracking is stable across runs.  Whenever update_asset_balance
\* completes the ledger update for an asset, the name it wrote is accepted
\* by from_string and decodes to the same symbol and quantity, whatever the
\* provider answered and whatever quantity the grammar accepts.
C10_TrackingStable ==
    \A i \in DOMAIN calls :
        (Len(calls[i]) = 2 /\ ~calls[i][2].fault) =>
            StillTracked(from_string(calls[i][2].name),
                         from_string(lm_assets[i].name))

(***************************************************************************)
(* The claims about the codec, checked under SpecCodec.                    *)
(***************************************************************************)

\* str() has been applied to the descriptor
Encoded == c_stage \in {"encoded", "redecoded"}

\* the first n characters of label (all of it when it is shorter)
FirstChars(label, n) == [i \in 1..(IF n < Len(label) THEN n ELSE Len(label)) |-> label[i]]

\* C4: truncation in __str__.  When the metadata suffix has length m <= 45,
\* the output is the first 45 - m characters of the label followed by the
\* whole metadata suffix: it is never longer than 45 characters, it ends
\* with the metadata, and the label is unchanged when label + metadata fits.
C4_Truncation ==
    (Encoded /\ Len(Metadata(c_asset)) <= 45) =>
        /\ c_out = FirstChars(c_asset.label, 45 - Len(Metadata(c_asset)))
                   \o Metadata(c_asset)
        /\ Len(c_out) <= 45
        /\ Len(c_asset.label) + Len(Metadata(c_asset)) <= 45
              => c_out = c_asset.label \o Metadata(c_asset)

\* C4 witness: a label was cut to make the output exactly 45 characters
C4_Witness ==
    /\ Encoded
    /\ Len(Metadata(c_asset)) <= 45
    /\ Len(c_asset.label) + Len(Metadata(c_asset)) > 45
    /\ Len(c_out) = 45
    /\ c_loaded

\* C5: over-long metadata in __str__.  When the metadata suffix alone is
\* longer than 45 characters the label part of the output is empty: the
\* output is exactly the metadata suffix.
C5_OverlongMetadata ==
    (Encoded /\ Len(Metadata(c_asset)) > 45) => c_out = Metadata(c_asset)

\* the price of b is the price of a up to 2 decimal places
SamePrice2(a, b) ==
    IF a = None \/ b = None THEN a = b
    ELSE Hundredths(a.val) = Hundredths(b.val)

\* C6: round trip.  For a descriptor d returned by from_string whose str()
\* needs no label truncation, from_string(str(d)) succeeds and gives the
\* same label, symbol, quantity and currency, and the same price up to 2
\* decimal places.
C6_RoundTrip ==
    (/\ c_stage = "redecoded"
     /\ ~c_loaded
     /\ Len(c_asset.label) + Len(Metadata(c_asset)) <= 45) =>
        /\ c_again.kind = "ok"
        /\ c_again.asset.label = c_asset.label
        /\ c_again.asset.symbol = c_asset.symbol
        /\ DecimalEq(c_again.asset.quantity, c_asset.quantity)
        /\ c_again.asset.currency = c_asset.currency
        /\ SamePrice2(c_again.asset.price, c_asset.price)

\* C7: price/currency pairing.  In every state of a descriptor reached by
\* from_string and then optionally a successful load_price, price and
\* currency are both set or both unset.
C7_PriceCurrencyPaired ==
    c_result.kind = "ok" => (c_asset.price = None <=> c_asset.currency = None)

\* C8: only one error kind from decode.  from_string either returns a
\* descriptor or fails with ValueError, the format error; no other fault
\* comes out of it, also not for a quantity or price such as "1.2.3" or "."
\* that passes the character class and is no numeral.
C8_OnlyFormatError ==
    /\ c_stage # "input" => c_result.kind \in {"ok", "ValueError"}
    /\ c_stage = "redecoded" => c_again.kind \in {"ok", "ValueError"}

AllSpace(s, i, j) == \A p \in i..j : IsSpace(s[p])

AllNum(s, i, j) == i <= j /\ \A p \in i..j : IsNumChar(s[p])

\* [ "@" currency price ] of the grammar, from position e to the very end of
\* s, with the currency and price of descriptor a
GrammarClause(s, e, a) ==
    \/ e = Len(s) + 1 /\ a.currency = None /\ a.price = None
    \/ \E at \in e..Len(s) :
          /\ s[at] = "@"
          /\ AllSpace(s, e, at - 1)
          /\ \E cur \in (at + 1)..(Len(s) - 3) :
                /\ AllSpace(s, at + 1, cur - 1)
                /\ \A p \in cur..(cur + 2) : IsUpper(s[p])
                /\ a.currency = Some(SubSeq(s, cur, cur + 2))
                /\ \E pr \in (cur + 3)..Len(s) :
                      /\ AllSpace(s, cur + 3, pr - 1)
                      /\ AllNum(s, pr, Len(s))
                      /\ a.price = Some(DecimalOfStr(SubSeq(s, pr, Len(s))))

\* quantity [ "@" currency price ] of the grammar, from position q
GrammarQuantity(s, q, a) ==
    \E e \in (q + 1)..(Len(s) + 1) :
        /\ AllNum(s, q, e - 1)
        /\ a.quantity = DecimalOfStr(SubSeq(s, q, e - 1))
        /\ GrammarClause(s, e, a)

\* the grammar  label "[" symbol "]:" quantity [ "@" currency price ]  with
\* whitespace around the tokens, matching the whole of s, the fields of
\* descriptor a being the captured ones (the label without the whitespace
\* before "[")
GrammarParses(s, a) ==
    /\ Len(a.label) <= Len(s)
    /\ a.label = SubSeq(s, 1, Len(a.label))
    /\ a.label = <<>> \/ ~IsSpace(a.label[Len(a.label)])
    /\ \E b \in (Len(a.label) + 1)..Len(s) :
          /\ s[b] = "["
          /\ AllSpace(s, Len(a.label) + 1, b - 1)
          /\ b + Len(a.symbol) + 2 <= Len(s)
          /\ a.symbol = SubSeq(s, b + 1, b + Len(a.symbol))
          /\ s[b + Len(a.symbol) + 1] = "]"
          /\ s[b + Len(a.symbol) + 2] = ":"
          /\ \E q \in (b + Len(a.symbol) + 3)..Len(s) :
                /\ AllSpace(s, b + Len(a.symbol) + 3, q - 1)
                /\ GrammarQuantity(s, q, a)

\* C9: whole-string acceptance in from_string.  A string is accepted only if
\* the grammar matches it in its entirety (so not with missing brackets, a
\* non-numeric quantity, a currency that is not 3 uppercase letters, or
\* anything after the final numeral), and an accepted string yields the
\* captured label, symbol and quantity, with currency and price unset when
\* the "@" clause is absent.
C9_WholeString ==
    c_result.kind = "ok" => GrammarParses(c_input, c_result.asset)

====
